---- MODULE Spec2Model ----
(***************************************************************************)
(* A model of the Homies AI service (src/ai_service/app.py): the five      *)
(* POST handlers analyze_image, analyze_text, match_users, batch_analyze   *)
(* and analyze_profile, run by a server that holds several invocations at  *)
(* once.                                                                   *)
(*                                                                         *)
(* Conventions                                                             *)
(*   Optional[T]   a sequence of length at most one: None is << >> and a   *)
(*                 value v is << v >>.                                     *)
(*   str           image payloads are named strings ("" is the empty       *)
(*                 string); texts are sequences of characters, so that     *)
(*                 len() is Len.                                           *)
(*   float         arithmetic is IEEE-754 binary64, modelled bit for bit   *)
(*                 (section "binary64"); a float that reaches a response   *)
(*                 is held as the number of hundredths its JSON text       *)
(*                 shows (0.85 is 85).                                     *)
(***************************************************************************)
EXTENDS Integers, Sequences, FiniteSets, TLC

(***************************************************************************)
(* Natural numbers of any size, as little-endian sequences of 15-bit limbs *)
(* with no leading zero limb (zero is << >>).  TLC's integers are 32 bits  *)
(* wide and a binary64 significand has 53; a limb times a number below     *)
(* 2^15 plus a carry stays below 2^31.                                     *)
(***************************************************************************)
RECURSIVE Pow2(_)
Pow2(k) == IF k <= 0 THEN 1 ELSE 2 * Pow2(k - 1)

RECURSIVE BitLen(_)
BitLen(n) == IF n = 0 THEN 0 ELSE 1 + BitLen(n \div 2)

RECURSIVE NatLimbs(_)
NatLimbs(n) == IF n = 0 THEN << >> ELSE << n % 32768 >> \o NatLimbs(n \div 32768)

RECURSIVE LimbsNat(_)
LimbsNat(b) == IF b = << >> THEN 0 ELSE Head(b) + 32768 * LimbsNat(Tail(b))

LBitLen(b) == IF b = << >> THEN 0 ELSE 15 * (Len(b) - 1) + BitLen(b[Len(b)])

RECURSIVE LStrip(_)
LStrip(b) ==
    IF b = << >> THEN << >>
    ELSE IF b[Len(b)] = 0 THEN LStrip(SubSeq(b, 1, Len(b) - 1)) ELSE b

RECURSIVE LAddC(_, _, _)
LAddC(a, b, c) ==
    IF a = << >> /\ b = << >> THEN NatLimbs(c)
    ELSE LET x == IF a = << >> THEN 0 ELSE Head(a)
             y == IF b = << >> THEN 0 ELSE Head(b)
             ta == IF a = << >> THEN << >> ELSE Tail(a)
             tb == IF b = << >> THEN << >> ELSE Tail(b)
         IN  << (x + y + c) % 32768 >> \o LAddC(ta, tb, (x + y + c) \div 32768)

LAdd(a, b) == LAddC(a, b, 0)

\* b * s + c for 0 < s <= 2^15
RECURSIVE LMulSmallC(_, _, _)
LMulSmallC(b, s, c) ==
    IF b = << >> THEN NatLimbs(c)
    ELSE << (Head(b) * s + c) % 32768 >>
             \o LMulSmallC(Tail(b), s, (Head(b) * s + c) \div 32768)

LMulSmall(b, s) == LMulSmallC(b, s, 0)

\* Long division by 0 < d <= 2^15, from the top limb down: [q, r] with
\* b = q * d + r and r < d.
RECURSIVE LDivStep(_, _, _, _, _)
LDivStep(b, d, i, r, q) ==
    IF i = 0 THEN [q |-> LStrip(q), r |-> r]
    ELSE LET x == 32768 * r + b[i]
         IN  LDivStep(b, d, i - 1, x % d, << x \div d >> \o q)

LDivSmall(b, d) == LDivStep(b, d, Len(b), 0, << >>)

\* b * 2^k
RECURSIVE LShl(_, _)
LShl(b, k) ==
    IF b = << >> \/ k <= 0 THEN b
    ELSE IF k >= 15 THEN << 0 >> \o LShl(b, k - 15)
    ELSE LMulSmall(b, Pow2(k))

\* floor(b / 2^k), with rem: whether a nonzero remainder was dropped
RECURSIVE LShrFloor(_, _, _)
LShrFloor(b, k, rem) ==
    IF k <= 0 \/ b = << >> THEN [q |-> b, rem |-> rem]
    ELSE IF k >= 15 THEN LShrFloor(Tail(b), k - 15, rem \/ Head(b) # 0)
    ELSE LET dv == LDivSmall(b, Pow2(k)) IN [q |-> dv.q, rem |-> rem \/ dv.r # 0]

\* b / 2^k rounded to the nearest integer, ties to even; sticky says that a
\* nonzero part was already dropped below b.
LShrRNE(b, k, sticky) ==
    IF k <= 0 THEN b
    ELSE LET lowpart == LShrFloor(b, k - 1, sticky)
             top == LDivSmall(lowpart.q, 2)
             odd == top.q # << >> /\ Head(top.q) % 2 = 1
         IN  IF top.r = 1 /\ (lowpart.rem \/ odd) THEN LAdd(top.q, << 1 >>) ELSE top.q

(***************************************************************************)
(* binary64.  A positive double is [m, e]: the value m * 2^e with m a      *)
(* 53-bit significand.  Every operation returns the double nearest to the  *)
(* exact result, ties to even (the IEEE-754 default, which CPython uses).  *)
(* None of the service's values is near the subnormal or overflow range.   *)
(***************************************************************************)
\* The double nearest to (n / d) * 2^e, for limbs n > 0 and 0 < d <= 2^15.
RoundRat(n, d, e) ==
    LET k == IF 55 + BitLen(d) > LBitLen(n) THEN 55 + BitLen(d) - LBitLen(n) ELSE 0
        dv == LDivSmall(LShl(n, k), d)
        drop == LBitLen(dv.q) - 53
        m == LShrRNE(dv.q, drop, dv.r # 0)
    IN  IF LBitLen(m) = 54 THEN [m |-> LDivSmall(m, 2).q, e |-> e - k + drop + 1]
        ELSE [m |-> m, e |-> e - k + drop]

\* A decimal literal n/d of the source, as the compiler reads it.
FloatLit(n, d) == RoundRat(NatLimbs(n), d, 0)

\* a + b
FAdd(a, b) ==
    LET lo == IF a.e < b.e THEN a.e ELSE b.e
    IN  RoundRat(LAdd(LShl(a.m, a.e - lo), LShl(b.m, b.e - lo)), 1, lo)

\* a / n for an int n (converted to a float exactly)
FDivInt(a, n) == RoundRat(a.m, n, a.e)

\* round(a, 2), as the hundredths of the result: the decimal nearest to the
\* exact binary value, ties to even (CPython float.__round__).
Round2(a) ==
    LET n == LMulSmall(a.m, 100)
    IN  IF a.e >= 0 THEN LimbsNat(LShl(n, a.e)) ELSE LimbsNat(LShrRNE(n, 0 - a.e, FALSE))

(***************************************************************************)
(* Bounds of the model.                                                    *)
(***************************************************************************)
\* Invocations the server holds at once (SpecConc).
NumInvocations == 2
\* Longest image list of a MatchRequest.
MaxImages == 2
\* Longest batch of batch_analyze.
MaxBatch == 2
\* Readings of time.time(), in seconds: 0..MaxClock.
MaxClock == 1

Clock == 0..MaxClock

(***************************************************************************)
(* Inputs.                                                                 *)
(***************************************************************************)
None == << >>
Some(v) == << v >>

UserIds == {"u1", "u2"}

\* What base64.b64decode and Image.open make of a payload: the image's
\* size and format, or nothing when either of them raises (the empty
\* string decodes to no bytes, which is no image).
ImageTable ==
    [ jpeg_200x200 |-> [size |-> << 200, 200 >>, format |-> "JPEG"],
      png_64x48 |-> [size |-> << 64, 48 >>, format |-> "PNG"] ]

OpenImage(image_data) ==
    IF image_data \in DOMAIN ImageTable THEN Some(ImageTable[image_data]) ELSE None

ImageStrings == {"jpeg_200x200", "png_64x48", "not-an-image"}

Texts == { << >>, << "h", "i" >> }

\* Python truthiness of an Optional[str], an Optional[List[str]] or a dict:
\* None, "", [] and {} are false.
TruthyStr(o) == o # None /\ o[1] # ""
TruthyText(o) == o # None /\ o[1] # << >>
TruthyList(o) == o # None /\ o[1] # << >>

SeqsUpTo(S, n) == UNION { [1..k -> S] : k \in 0..n }

EmptyProfile(u) ==
    [user_id |-> u, name |-> "", interests |-> << >>, lifestyle |-> "",
     description |-> "", preferences |-> {}]
FullProfile(u) ==
    [user_id |-> u, name |-> "John Doe", interests |-> << "cooking" >>,
     lifestyle |-> "organized and quiet", description |-> "Software developer",
     preferences |-> {"cleanliness", "noise_level"}]
Profiles(u) == {EmptyProfile(u), FullProfile(u)}

\* The image lists of a MatchRequest hold images and payloads that are none.
MatchImageStrings == {"jpeg_200x200", "not-an-image"}
OptImageLists == {None} \cup { Some(l) : l \in SeqsUpTo(MatchImageStrings, MaxImages) }

MatchRequests ==
    [user1_profile : Profiles("u1"), user2_profile : Profiles("u2"),
     user1_images : OptImageLists, user2_images : OptImageLists]

ImageAnalysisRequests ==
    [user_id : UserIds, image_data : ImageStrings \cup {""}, image_type : {"profile", "room"}]

TextAnalysisRequests == [user_id : UserIds, text : Texts, text_type : {"bio"}]

BatchItems ==
    [user_id : UserIds, image_data : {"jpeg_200x200", "not-an-image"}, image_type : {"room"}]
BatchRequests == SeqsUpTo(BatchItems, MaxBatch)

ProfileRequests ==
    [user_id : UserIds,
     text_data : {None} \cup { Some(t) : t \in Texts },
     image_data : {None} \cup { Some(d) : d \in ImageStrings \cup {""} }]

Call(kind, S) == { [kind |-> kind, arg |-> r] : r \in S }

\* Every request of the bounded input space.
AllRequests ==
    Call("match_users", MatchRequests) \cup Call("analyze_image", ImageAnalysisRequests)
    \cup Call("analyze_text", TextAnalysisRequests) \cup Call("batch_analyze", BatchRequests)
    \cup Call("analyze_profile", ProfileRequests)

(***************************************************************************)
(* The handlers' computations.  A response is [status, body]: 200 with the *)
(* returned object, or 500 with the HTTPException's detail.                *)
(***************************************************************************)
Ok(body) == [status |-> 200, body |-> body]
Failed(detail) == [status |-> 500, body |-> [detail |-> detail]]
NoResponse == [status |-> 0, body |-> << >>]

\* (time.time() - start_time) * 1000
ProcessingTime(start_time, end_time) == (end_time - start_time) * 1000

\* analyze_image: the mock results of a payload that opens as an image, or
\* the HTTPException raised for the exception of b64decode / Image.open.
AnalyzeImageResult(request, start_time, end_time) ==
    LET image == OpenImage(request.image_data)
    IN  IF image = None THEN Failed("Image analysis failed")
        ELSE Ok([user_id |-> request.user_id,
                 analysis_type |-> "image_analysis",
                 results |->
                     [image_type |-> request.image_type,
                      image_size |-> image[1].size,
                      image_format |-> image[1].format,
                      color_palette |-> << "#FF0000", "#00FF00", "#0000FF" >>,
                      objects_detected |-> << "furniture", "electronics", "books" >>,
                      cleanliness_score |-> 85,
                      lifestyle_indicators |-> << "organized", "tech-savvy", "studious" >>,
                      room_style |-> "modern_minimalist",
                      clutter_level |-> "low",
                      aesthetic_preference |-> "minimalist",
                      personality_hints |-> << "detail-oriented", "practical", "ambitious" >>],
                 confidence_score |-> 92,
                 processing_time_ms |-> ProcessingTime(start_time, end_time)])

\* analyze_text: nothing in its try block raises.
AnalyzeTextResult(request, start_time, end_time) ==
    Ok([user_id |-> request.user_id,
        analysis_type |-> "text_analysis",
        results |->
            [text_type |-> request.text_type,
             text_length |-> Len(request.text),
             sentiment |-> "positive",
             sentiment_score |-> 78,
             keywords |-> << "friendly", "clean", "quiet", "organized", "ambitious" >>,
             personality_traits |-> << "extroverted", "organized", "ambitious", "friendly" >>,
             lifestyle_preferences |-> << "early_bird", "clean_freak", "social", "studious" >>,
             communication_style |-> "direct_and_friendly",
             stress_level |-> "low",
             social_preference |-> "moderate",
             cleanliness_priority |-> "high",
             noise_tolerance |-> "low",
             schedule_preference |-> "structured"],
        confidence_score |-> 88,
        processing_time_ms |-> ProcessingTime(start_time, end_time)])

\* The mock per-modality scores of match_users, in hundredths.
TextCompatibility == 85
ImageCompatibilityScore == 78
LifestyleCompatibility == 92

\* ImageCompatibility with `or` for `and`: images of one user are enough.
ImageCompatibilityEither(request) ==
    IF TruthyList(request.user1_images) \/ TruthyList(request.user2_images)
    THEN Some(ImageCompatibilityScore) ELSE None

\* ImageCompatibility looking only at the first image of each list, and
\* only when it opens.
ImageCompatibilityFirstOnly(request) ==
    IF /\ TruthyList(request.user1_images) /\ TruthyList(request.user2_images)
       /\ OpenImage(request.user1_images[1][1]) # None
       /\ OpenImage(request.user2_images[1][1]) # None
    THEN Some(ImageCompatibilityScore) ELSE None

\* 0.78 if request.user1_images and request.user2_images else None
ImageCompatibility(request) ==
    IF TruthyList(request.user1_images) /\ TruthyList(request.user2_images)
    THEN Some(ImageCompatibilityScore) ELSE None

\* `if image_compatibility:` is the truthiness of an Optional[float]
TruthyFloat(o) == o # None /\ o[1] # 0

\* MatchScore without the division: the sum of the scores.
MatchScoreSum(text, image, lifestyle) ==
    IF image # None /\ image[1] # 0
    THEN FAdd(FAdd(FloatLit(text, 100), FloatLit(image[1], 100)), FloatLit(lifestyle, 100))
    ELSE FAdd(FloatLit(text, 100), FloatLit(lifestyle, 100))

\* The match score before rounding: the plain mean of the scores at hand.
MatchScore(text, image, lifestyle) ==
    IF TruthyFloat(image)
    THEN FDivInt(FAdd(FAdd(FloatLit(text, 100), FloatLit(image[1], 100)),
                      FloatLit(lifestyle, 100)), 3)
    ELSE FDivInt(FAdd(FloatLit(text, 100), FloatLit(lifestyle, 100)), 2)

\* CompatibilityFactors with three image factors in place of one.
CompatibilityFactorsExtended(image) ==
    << "Similar lifestyle preferences",
       "Compatible communication styles",
       "Matching cleanliness standards",
       "Shared interests in technology and organization" >>
    \o (IF image # None /\ image[1] # 0
        THEN << "Compatible room aesthetics", "Similar cleanliness of rooms",
                "Similar organization of space" >>
        ELSE << >>)

CompatibilityFactors(image) ==
    << "Similar lifestyle preferences",
       "Compatible communication styles",
       "Matching cleanliness standards",
       "Shared interests in technology and organization" >>
    \o (IF TruthyFloat(image) THEN << "Compatible room aesthetics" >> ELSE << >>)

\* DetailedAnalysis reporting the aesthetic score whether or not images
\* were compared.
DetailedAnalysisUnconditional(image) ==
    [text_analysis |->
         [communication_compatibility |-> 88, personality_alignment |-> 82,
          lifestyle_similarity |-> 90],
     image_analysis |->
         [aesthetic_compatibility |-> Some(75),
          cleanliness_alignment |-> 85, space_organization_similarity |-> 80],
     preference_matching |->
         [schedule_compatibility |-> 92, social_preference_alignment |-> 78,
          noise_tolerance_match |-> 85]]

DetailedAnalysis(image) ==
    [text_analysis |->
         [communication_compatibility |-> 88, personality_alignment |-> 82,
          lifestyle_similarity |-> 90],
     image_analysis |->
         [aesthetic_compatibility |-> IF TruthyFloat(image) THEN Some(75) ELSE None,
          cleanliness_alignment |-> 85, space_organization_similarity |-> 80],
     preference_matching |->
         [schedule_compatibility |-> 92, social_preference_alignment |-> 78,
          noise_tolerance_match |-> 85]]

\* MatchUsersResult with the measured time reported inside detailed_analysis.
MatchUsersResultTimed(request, start_time, end_time) ==
    LET image_compatibility == ImageCompatibility(request)
        match_score ==
            MatchScore(TextCompatibility, image_compatibility, LifestyleCompatibility)
    IN  Ok([match_score |-> Round2(match_score),
            compatibility_factors |-> CompatibilityFactors(image_compatibility),
            image_compatibility |-> image_compatibility,
            text_compatibility |-> Some(TextCompatibility),
            lifestyle_compatibility |-> Some(LifestyleCompatibility),
            detailed_analysis |->
                [analysis |-> DetailedAnalysis(image_compatibility),
                 processing_time_ms |-> ProcessingTime(start_time, end_time)]])

\* match_users.  Nothing in its try block raises for a request the
\* framework has validated, so the response is always the MatchResponse;
\* processing_time is computed (line 275) and dropped.
MatchUsersResult(request, start_time, end_time) ==
    LET image_compatibility == ImageCompatibility(request)
        match_score ==
            MatchScore(TextCompatibility, image_compatibility, LifestyleCompatibility)
    IN  Ok([match_score |-> Round2(match_score),
            compatibility_factors |-> CompatibilityFactors(image_compatibility),
            image_compatibility |-> image_compatibility,
            text_compatibility |-> Some(TextCompatibility),
            lifestyle_compatibility |-> Some(LifestyleCompatibility),
            detailed_analysis |-> DetailedAnalysis(image_compatibility)])

\* batch_analyze's return value for the results gathered.
BatchResponse(requests, results) ==
    Ok([analyses |-> results, total_processed |-> Len(results), batch_size |-> Len(requests)])

\* analyze_profile: the dict it starts from, and the combination it ends with.
\* A dict-valued entry is << >> for {} and << d >> for a dict d with keys.
EmptyDict == << >>
NewProfileAnalysis(user_id) ==
    [user_id |-> user_id, text_analysis |-> None, image_analysis |-> None,
     overall_personality |-> EmptyDict, lifestyle_summary |-> EmptyDict,
     compatibility_indicators |-> << >>]

\* CombineProfile with `or` for `and`: one modality is enough for the
\* fixed summary.
CombineProfileEither(profile_analysis) ==
    IF profile_analysis.text_analysis # None \/ profile_analysis.image_analysis # None
    THEN [profile_analysis EXCEPT !.overall_personality =
              Some([primary_traits |-> << "organized", "ambitious", "friendly" >>,
                    communication_style |-> "direct_and_friendly",
                    social_preference |-> "moderate",
                    lifestyle_type |-> "structured_and_clean"])]
    ELSE profile_analysis

\* overall_personality stays {}, or becomes the fixed summary or one analysis.
CombineProfile(profile_analysis) ==
    IF profile_analysis.text_analysis # None /\ profile_analysis.image_analysis # None
    THEN [profile_analysis EXCEPT !.overall_personality =
              Some([primary_traits |-> << "organized", "ambitious", "friendly" >>,
                    communication_style |-> "direct_and_friendly",
                    social_preference |-> "moderate",
                    lifestyle_type |-> "structured_and_clean"])]
    ELSE IF profile_analysis.text_analysis # None
    THEN [profile_analysis EXCEPT !.overall_personality = profile_analysis.text_analysis]
    ELSE IF profile_analysis.image_analysis # None
    THEN [profile_analysis EXCEPT !.overall_personality = profile_analysis.image_analysis]
    ELSE profile_analysis

(***************************************************************************)
(* The server.  Each slot holds one invocation: the handler called (op),   *)
(* its request (req), the handler's local variables (loc) and, once the    *)
(* handler has returned or raised, its response (resp).  A handler without *)
(* an await runs in one step; batch_analyze and analyze_profile may be     *)
(* suspended at each await, so each awaited call is a step of its own.     *)
(***************************************************************************)
VARIABLES pc, op, req, loc, resp

vars == << pc, op, req, loc, resp >>

\* results and next are batch_analyze's list and the place of its for loop;
\* profile_analysis is analyze_profile's dict; processing_time is match_users'.
NoLocals ==
    [results |-> << >>, next |-> 1, profile_analysis |-> None, processing_time |-> None]

InitialLocals(c) ==
    IF c.kind = "analyze_profile"
    THEN [NoLocals EXCEPT !.profile_analysis = Some(NewProfileAnalysis(c.arg.user_id))]
    ELSE NoLocals

InitOver(slots) ==
    /\ pc = [i \in slots |-> "idle"]
    /\ op = [i \in slots |-> "none"]
    /\ req = [i \in slots |-> << >>]
    /\ loc = [i \in slots |-> NoLocals]
    /\ resp = [i \in slots |-> NoResponse]

\* The framework hands a validated request to its handler.
Receive(i, c) ==
    /\ pc[i] = "idle"
    /\ pc' = [pc EXCEPT ![i] = "run"]
    /\ op' = [op EXCEPT ![i] = c.kind]
    /\ req' = [req EXCEPT ![i] = c.arg]
    /\ loc' = [loc EXCEPT ![i] = InitialLocals(c)]
    /\ UNCHANGED resp

Return(i, response) ==
    /\ pc' = [pc EXCEPT ![i] = "done"]
    /\ resp' = [resp EXCEPT ![i] = response]
    /\ UNCHANGED << op, req >>

MatchUsers(i) ==
    /\ pc[i] = "run" /\ op[i] = "match_users"
    /\ \E start_time \in Clock : \E end_time \in start_time..MaxClock :
          /\ loc' = [loc EXCEPT ![i].processing_time =
                         Some(ProcessingTime(start_time, end_time))]
          /\ Return(i, MatchUsersResult(req[i], start_time, end_time))

AnalyzeImage(i) ==
    /\ pc[i] = "run" /\ op[i] = "analyze_image"
    /\ \E start_time \in Clock : \E end_time \in start_time..MaxClock :
          Return(i, AnalyzeImageResult(req[i], start_time, end_time))
    /\ UNCHANGED loc

AnalyzeText(i) ==
    /\ pc[i] = "run" /\ op[i] = "analyze_text"
    /\ \E start_time \in Clock : \E end_time \in start_time..MaxClock :
          Return(i, AnalyzeTextResult(req[i], start_time, end_time))
    /\ UNCHANGED loc

\* BatchStep with results a list of the module, shared by every invocation
\* of batch_analyze that is running, instead of a local of the handler.
BatchStepSharedResults(i) ==
    /\ pc[i] = "run" /\ op[i] = "batch_analyze"
    /\ loc[i].next <= Len(req[i])
    /\ \E start_time \in Clock : \E end_time \in start_time..MaxClock :
          LET result == AnalyzeImageResult(req[i][loc[i].next], start_time, end_time)
          IN  IF result.status = 200
              THEN /\ loc' = [j \in DOMAIN loc |->
                                 IF j = i
                                 THEN [loc[j] EXCEPT !.results = Append(@, result.body),
                                                     !.next = @ + 1]
                                 ELSE IF pc[j] = "run" /\ op[j] = "batch_analyze"
                                 THEN [loc[j] EXCEPT !.results = Append(@, result.body)]
                                 ELSE loc[j]]
                   /\ UNCHANGED << pc, op, req, resp >>
              ELSE /\ pc' = [pc EXCEPT ![i] = "done"]
                   /\ resp' = [resp EXCEPT ![i] = Failed("Batch analysis failed")]
                   /\ UNCHANGED << op, req, loc >>

\* BatchStep that leaves a failed item out and goes on with the next one.
BatchStepSkipFailed(i) ==
    /\ pc[i] = "run" /\ op[i] = "batch_analyze"
    /\ loc[i].next <= Len(req[i])
    /\ \E start_time \in Clock : \E end_time \in start_time..MaxClock :
          LET result == AnalyzeImageResult(req[i][loc[i].next], start_time, end_time)
          IN  /\ loc' = [loc EXCEPT ![i].results =
                                        IF result.status = 200
                                        THEN Append(@, result.body) ELSE @,
                                    ![i].next = @ + 1]
              /\ UNCHANGED << pc, op, req, resp >>

\* One turn of batch_analyze's loop: await analyze_image(request), then
\* results.append(result); the HTTPException of a failed item is caught by
\* the handler's except clause and raised again as the batch's own.
BatchStep(i) ==
    /\ pc[i] = "run" /\ op[i] = "batch_analyze"
    /\ loc[i].next <= Len(req[i])
    /\ \E start_time \in Clock : \E end_time \in start_time..MaxClock :
          LET result == AnalyzeImageResult(req[i][loc[i].next], start_time, end_time)
          IN  IF result.status = 200
              THEN /\ loc' = [loc EXCEPT ![i].results = Append(@, result.body),
                                         ![i].next = @ + 1]
                   /\ UNCHANGED << pc, op, req, resp >>
              ELSE /\ Return(i, Failed("Batch analysis failed"))
                   /\ UNCHANGED loc

BatchReturn(i) ==
    /\ pc[i] = "run" /\ op[i] = "batch_analyze"
    /\ loc[i].next > Len(req[i])
    /\ Return(i, BatchResponse(req[i], loc[i].results))
    /\ UNCHANGED loc

\* analyze_profile up to its second await: the text analysis, when text_data
\* is truthy.
ProfileText(i) ==
    /\ pc[i] = "run" /\ op[i] = "analyze_profile"
    /\ pc' = [pc EXCEPT ![i] = "image"]
    /\ IF TruthyText(req[i].text_data)
       THEN \E start_time \in Clock : \E end_time \in start_time..MaxClock :
               LET text_request == [user_id |-> req[i].user_id,
                                    text |-> req[i].text_data[1],
                                    text_type |-> "profile"]
                   text_result == AnalyzeTextResult(text_request, start_time, end_time)
               IN  loc' = [loc EXCEPT ![i].profile_analysis[1].text_analysis =
                               Some(text_result.body.results)]
       ELSE UNCHANGED loc
    /\ UNCHANGED << op, req, resp >>

\* The image analysis, when image_data is truthy; its HTTPException is
\* caught by the handler's except clause and raised again as the profile's.
ProfileImage(i) ==
    /\ pc[i] = "image" /\ op[i] = "analyze_profile"
    /\ IF TruthyStr(req[i].image_data)
       THEN \E start_time \in Clock : \E end_time \in start_time..MaxClock :
               LET image_request == [user_id |-> req[i].user_id,
                                     image_data |-> req[i].image_data[1],
                                     image_type |-> "profile"]
                   image_result == AnalyzeImageResult(image_request, start_time, end_time)
               IN  IF image_result.status = 200
                   THEN /\ loc' = [loc EXCEPT ![i].profile_analysis[1].image_analysis =
                                       Some(image_result.body.results)]
                        /\ pc' = [pc EXCEPT ![i] = "combine"]
                        /\ UNCHANGED << op, req, resp >>
                   ELSE /\ Return(i, Failed("Profile analysis failed"))
                        /\ UNCHANGED loc
       ELSE /\ pc' = [pc EXCEPT ![i] = "combine"]
            /\ UNCHANGED << op, req, loc, resp >>

ProfileReturn(i) ==
    /\ pc[i] = "combine" /\ op[i] = "analyze_profile"
    /\ loc' = [loc EXCEPT ![i].profile_analysis[1] = CombineProfile(@)]
    /\ Return(i, Ok(CombineProfile(loc[i].profile_analysis[1])))

\* The response is sent and the slot is free again.
Respond(i) ==
    /\ pc[i] = "done"
    /\ pc' = [pc EXCEPT ![i] = "idle"]
    /\ op' = [op EXCEPT ![i] = "none"]
    /\ req' = [req EXCEPT ![i] = << >>]
    /\ loc' = [loc EXCEPT ![i] = NoLocals]
    /\ resp' = [resp EXCEPT ![i] = NoResponse]

\* One invocation at a time, over the whole bounded input space.
Init == InitOver({1})

Next ==
    \E i \in {1} :
        \/ \E c \in AllRequests : Receive(i, c)
        \/ MatchUsers(i)
        \/ AnalyzeImage(i)
        \/ AnalyzeText(i)
        \/ BatchStep(i)
        \/ BatchReturn(i)
        \/ ProfileText(i)
        \/ ProfileImage(i)
        \/ ProfileReturn(i)
        \/ Respond(i)

Spec == Init /\ [][Next]_vars

(***************************************************************************)
(* NumInvocations invocations at once, their steps interleaved in any      *)
(* order, over requests of every handler.                                  *)
(***************************************************************************)
ConcRequests ==
    Call("match_users",
         { r \in MatchRequests :
             /\ r.user1_profile = FullProfile("u1") /\ r.user2_profile = FullProfile("u2")
             /\ r.user1_images \in {None, Some(<< "jpeg_200x200" >>)}
             /\ r.user2_images = Some(<< "jpeg_200x200" >>) })
    \cup Call("analyze_image",
              { r \in ImageAnalysisRequests :
                  /\ r.user_id = "u1" /\ r.image_type = "room"
                  /\ r.image_data \in {"jpeg_200x200", "not-an-image"} })
    \cup Call("analyze_text", { r \in TextAnalysisRequests : r.user_id = "u2" /\ r.text # << >> })
    \cup Call("batch_analyze",
              { << [user_id |-> "u1", image_data |-> "jpeg_200x200", image_type |-> "room"] >>,
                << [user_id |-> "u1", image_data |-> "jpeg_200x200", image_type |-> "room"],
                   [user_id |-> "u2", image_data |-> "not-an-image", image_type |-> "room"] >> })
    \cup Call("analyze_profile",
              { r \in ProfileRequests :
                  /\ r.user_id = "u2" /\ r.text_data = Some(<< "h", "i" >>)
                  /\ r.image_data \in {Some("jpeg_200x200"), Some("not-an-image")} })

InitConc == InitOver(1..NumInvocations)

NextConc ==
    \E i \in 1..NumInvocations :
        \/ \E c \in ConcRequests : Receive(i, c)
        \/ MatchUsers(i)
        \/ AnalyzeImage(i)
        \/ AnalyzeText(i)
        \/ BatchStep(i)
        \/ BatchReturn(i)
        \/ ProfileText(i)
        \/ ProfileImage(i)
        \/ ProfileReturn(i)
        \/ Respond(i)

SpecConc == InitConc /\ [][NextConc]_vars

(***************************************************************************)
(* Each handler run from call to return with nothing in between: the set   *)
(* of responses a request can get, over every reading of the clock.        *)
(***************************************************************************)
ClockReadings == { t \in Clock \X Clock : t[1] <= t[2] }

\* batch_analyze from the results gathered so far.
RECURSIVE BatchAnalyzeResults(_, _)
BatchAnalyzeResults(requests, results) ==
    IF Len(results) = Len(requests) THEN {BatchResponse(requests, results)}
    ELSE UNION { LET result == AnalyzeImageResult(requests[Len(results) + 1], t[1], t[2])
                 IN  IF result.status = 200
                     THEN BatchAnalyzeResults(requests, Append(results, result.body))
                     ELSE {Failed("Batch analysis failed")}
                 : t \in ClockReadings }

AnalyzeProfileResults(request) ==
    UNION { LET started == NewProfileAnalysis(request.user_id)
                text_request == [user_id |-> request.user_id,
                                 text |-> request.text_data[1], text_type |-> "profile"]
                with_text ==
                    IF TruthyText(request.text_data)
                    THEN [started EXCEPT !.text_analysis =
                              Some(AnalyzeTextResult(text_request, t[1], t[2]).body.results)]
                    ELSE started
                image_request == [user_id |-> request.user_id,
                                  image_data |-> request.image_data[1],
                                  image_type |-> "profile"]
                image_result == AnalyzeImageResult(image_request, u[1], u[2])
            IN  IF ~TruthyStr(request.image_data) THEN {Ok(CombineProfile(with_text))}
                ELSE IF image_result.status # 200 THEN {Failed("Profile analysis failed")}
                ELSE {Ok(CombineProfile([with_text EXCEPT !.image_analysis =
                                             Some(image_result.body.results)]))}
            : t \in ClockReadings, u \in ClockReadings }

\* Whether the response is one the handler, run alone, gives the request.
ReturnedAlone(kind, request, response) ==
    CASE kind = "match_users" ->
             \E t \in ClockReadings : response = MatchUsersResult(request, t[1], t[2])
      [] kind = "analyze_image" ->
             \E t \in ClockReadings : response = AnalyzeImageResult(request, t[1], t[2])
      [] kind = "analyze_text" ->
             \E t \in ClockReadings : response = AnalyzeTextResult(request, t[1], t[2])
      [] kind = "batch_analyze" -> response \in BatchAnalyzeResults(request, << >>)
      [] kind = "analyze_profile" -> response \in AnalyzeProfileResults(request)

(***************************************************************************)
(* Properties.                                                             *)
(***************************************************************************)
Slots == DOMAIN pc

\* Slot i holds a finished invocation of the handler.
Finished(i, kind) == pc[i] = "done" /\ op[i] = kind

Abs(x) == IF x < 0 THEN 0 - x ELSE x

BothHaveImages(request) ==
    TruthyList(request.user1_images) /\ TruthyList(request.user2_images)

WithoutImages(request) == [request EXCEPT !.user1_images = None, !.user2_images = None]

\* The rearrangements of a list: the lists with the same items as often.
Occurrences(l, x) == Cardinality({ k \in 1..Len(l) : l[k] = x })
Rearrangements(l) ==
    { p \in [1..Len(l) -> { l[k] : k \in 1..Len(l) }] :
        \A x \in { l[k] : k \in 1..Len(l) } : Occurrences(p, x) = Occurrences(l, x) }
OptRearrangements(o) == IF o = None THEN {None} ELSE { Some(p) : p \in Rearrangements(o[1]) }

\* An image list with an item that opens as an image.
HasImage(o) == o # None /\ \E k \in 1..Len(o[1]) : OpenImage(o[1][k]) # None

\* Nothing to compare: images missing on a side, and a description and
\* preferences missing on a side.
NoSharedModality(request) ==
    /\ ~BothHaveImages(request)
    /\ request.user1_profile.description = "" \/ request.user2_profile.description = ""
    /\ request.user1_profile.preferences = {} \/ request.user2_profile.preferences = {}

\* C1 (as claimed): the match score of every match_users response is the
\* mean of the reported per-modality scores under the weights text 0.4,
\* image 0.3, lifestyle 0.3, renormalized over the modalities reported,
\* rounded to two decimals.
C1_WeightedMean ==
    \A i \in Slots :
        Finished(i, "match_users") /\ resp[i].status = 200 =>
            LET body == resp[i].body
                image == body.image_compatibility
                weights == IF image # None THEN 10 ELSE 7
                weighted == 4 * body.text_compatibility[1]
                            + 3 * body.lifestyle_compatibility[1]
                            + (IF image # None THEN 3 * image[1] ELSE 0)
            IN  2 * Abs(body.match_score * weights - weighted) <= weights

\* C2: when the images of a match_users request are missing on one side or
\* on both, image_compatibility is null and the match score is the score of
\* the same profiles with no images at all, the mean of the text and the
\* lifestyle score alone (to the rounding).
C2_OneSidedImagesExcluded ==
    \A i \in Slots :
        Finished(i, "match_users") /\ ~BothHaveImages(req[i]) =>
            /\ resp[i].status = 200
            /\ resp[i].body.image_compatibility = None
            /\ resp[i].body.match_score
                   = MatchUsersResult(WithoutImages(req[i]), 0, 0).body.match_score
            /\ Abs(2 * resp[i].body.match_score
                   - (resp[i].body.text_compatibility[1]
                      + resp[i].body.lifestyle_compatibility[1])) <= 1

C2_Witness ==
    \E i \in Slots :
        /\ Finished(i, "match_users")
        /\ TruthyList(req[i].user1_images) /\ req[i].user2_images = None
        /\ resp[i].status = 200 /\ resp[i].body.image_compatibility = None

\* C3 (as claimed): a match_users request whose users share no modality
\* ends in an error, never in a MatchResponse.
C3_InsufficientSignalFails ==
    \A i \in Slots :
        Finished(i, "match_users") /\ NoSharedModality(req[i]) => resp[i].status = 500

\* C4 (as claimed): a failed image analysis is taken as an absent modality:
\* analyze_profile with text and an image that does not open succeeds with
\* the text analysis and no image analysis, and batch_analyze keeps the
\* analyses of the items that open.
C4_FailedAnalysisIsAbsent ==
    \A i \in Slots :
        /\ ( /\ Finished(i, "analyze_profile")
             /\ TruthyText(req[i].text_data) /\ TruthyStr(req[i].image_data)
             /\ OpenImage(req[i].image_data[1]) = None )
           => /\ resp[i].status = 200
              /\ resp[i].body.text_analysis # None
              /\ resp[i].body.image_analysis = None
        /\ ( /\ Finished(i, "batch_analyze")
             /\ \E k \in 1..Len(req[i]) : OpenImage(req[i][k].image_data) = None
             /\ \E k \in 1..Len(req[i]) : OpenImage(req[i][k].image_data) # None )
           => /\ resp[i].status = 200
              /\ Len(resp[i].body.analyses)
                     = Cardinality({ k \in 1..Len(req[i]) :
                                       OpenImage(req[i][k].image_data) # None })

\* C5 (as claimed): match_users reports an image compatibility exactly
\* when each user's image list holds an item that opens as an image.
C5_UndecodableImagesAbsent ==
    \A i \in Slots :
        Finished(i, "match_users") /\ resp[i].status = 200 =>
            ( resp[i].body.image_compatibility # None
                <=> HasImage(req[i].user1_images) /\ HasImage(req[i].user2_images) )

\* C6: the match score and every per-modality score a MatchResponse
\* reports lie in [0, 1] (in hundredths, 0..100).
C6_ScoresInUnitInterval ==
    \A i \in Slots :
        Finished(i, "match_users") /\ resp[i].status = 200 =>
            /\ resp[i].body.match_score \in 0..100
            /\ \A o \in { resp[i].body.text_compatibility,
                          resp[i].body.image_compatibility,
                          resp[i].body.lifestyle_compatibility } :
                   o # None => o[1] \in 0..100

C6_Witness ==
    \E i \in Slots :
        /\ Finished(i, "match_users") /\ resp[i].status = 200
        /\ resp[i].body.image_compatibility # None
        /\ resp[i].body.match_score > 0

\* C7: the response of match_users is the response of the same request
\* with the items of either image list in any other order.
C7_ImageOrderIrrelevant ==
    \A i \in Slots :
        Finished(i, "match_users") =>
            \A p1 \in OptRearrangements(req[i].user1_images),
               p2 \in OptRearrangements(req[i].user2_images) :
                MatchUsersResult([req[i] EXCEPT !.user1_images = p1, !.user2_images = p2],
                                 0, 0) = resp[i]

C7_Witness ==
    \E i \in Slots :
        /\ Finished(i, "match_users") /\ resp[i].status = 200
        /\ req[i].user1_images = Some(<< "not-an-image", "jpeg_200x200" >>)
        /\ req[i].user2_images = Some(<< "jpeg_200x200", "not-an-image" >>)
        /\ Cardinality(OptRearrangements(req[i].user1_images)) > 1

\* C8: two match_users invocations with the same request return the same
\* response, whatever time each of them measured.
C8_Deterministic ==
    \A i, j \in Slots :
        Finished(i, "match_users") /\ Finished(j, "match_users") /\ req[i] = req[j]
            => resp[i] = resp[j]

C8_Witness ==
    \E i, j \in Slots :
        /\ i # j
        /\ Finished(i, "match_users") /\ Finished(j, "match_users")
        /\ req[i] = req[j]
        /\ loc[i].processing_time # loc[j].processing_time
        /\ resp[i] = resp[j] /\ resp[i].status = 200

\* C9: however the steps of the invocations are interleaved, each finished
\* invocation holds a response that the same request gets when its handler
\* runs alone.
C9_ResponseAsIfAlone ==
    \A i \in Slots : pc[i] = "done" => ReturnedAlone(op[i], req[i], resp[i])

C9_Witness ==
    \E i, j \in Slots :
        /\ i # j
        /\ Finished(i, "batch_analyze") /\ resp[i].status = 200
        /\ op[j] = "batch_analyze" /\ pc[j] = "run" /\ loc[j].next = 2

\* C10: a MatchResponse never lists more than 6 compatibility factors.
C10_AtMostSixFactors ==
    \A i \in Slots :
        Finished(i, "match_users") /\ resp[i].status = 200 =>
            Len(resp[i].body.compatibility_factors) <= 6

C10_Witness ==
    \E i \in Slots :
        /\ Finished(i, "match_users") /\ resp[i].status = 200
        /\ BothHaveImages(req[i])
        /\ Len(req[i].user1_images[1]) = MaxImages
        /\ Len(resp[i].body.compatibility_factors) = 5

\* C11: every successful analyze_profile call returns the user_id it was
\* given, a text_analysis that is non-null exactly when a non-empty
\* text_data was supplied, an image_analysis that is non-null exactly when a
\* non-empty image_data was supplied, and an overall_personality that is the
\* fixed summary when both analyses are present, the text analysis when only
\* it is present, the image analysis when only it is present, and the empty
\* mapping when neither is.
C11_ProfileShape ==
    \A i \in Slots :
        Finished(i, "analyze_profile") /\ resp[i].status = 200 =>
            LET body == resp[i].body
                has_text == body.text_analysis # None
                has_image == body.image_analysis # None
            IN  /\ body.user_id = req[i].user_id
                /\ has_text <=> (req[i].text_data # None /\ req[i].text_data[1] # << >>)
                /\ has_image <=> (req[i].image_data # None /\ req[i].image_data[1] # "")
                /\ has_text /\ has_image =>
                       body.overall_personality =
                           << [primary_traits |-> << "organized", "ambitious", "friendly" >>,
                               communication_style |-> "direct_and_friendly",
                               social_preference |-> "moderate",
                               lifestyle_type |-> "structured_and_clean"] >>
                /\ has_text /\ ~has_image =>
                       body.overall_personality = body.text_analysis
                /\ ~has_text /\ has_image =>
                       body.overall_personality = body.image_analysis
                /\ ~has_text /\ ~has_image => body.overall_personality = << >>

\* A profile of text alone was analysed and its personality is the text's.
C11_Witness ==
    \E i \in Slots :
        /\ Finished(i, "analyze_profile") /\ resp[i].status = 200
        /\ req[i].text_data # None /\ req[i].text_data[1] # << >>
        /\ req[i].image_data = None
        /\ resp[i].body.text_analysis # None
        /\ resp[i].body.image_analysis = None
        /\ resp[i].body.overall_personality = resp[i].body.text_analysis

\* C12: batch_analyze is all-or-nothing and keeps the order of its requests.
\* When every request can be analysed the call succeeds with one analysis per
\* request, analyses[k].user_id = requests[k].user_id for every k, and
\* total_processed = batch_size = the number of requests (none for the empty
\* batch); when some request cannot, the loop has stopped at the first such
\* request and the call answers 500 with a detail and no analyses.
C12_BatchAllOrNothing ==
    \A i \in Slots :
        Finished(i, "batch_analyze") =>
            LET requests == req[i]
                failing == { k \in 1..Len(requests) :
                                OpenImage(requests[k].image_data) = None }
            IN  IF failing = {}
                THEN /\ resp[i].status = 200
                     /\ Len(resp[i].body.analyses) = Len(requests)
                     /\ \A k \in 1..Len(requests) :
                            resp[i].body.analyses[k].user_id = requests[k].user_id
                     /\ resp[i].body.total_processed = Len(requests)
                     /\ resp[i].body.batch_size = Len(requests)
                ELSE /\ resp[i].status = 500
                     /\ DOMAIN resp[i].body = {"detail"}
                     /\ loc[i].next \in failing
                     /\ \A k \in failing : loc[i].next <= k
                     /\ Len(loc[i].results) = loc[i].next - 1

\* A batch of two users answered in their order.
C12_Witness ==
    \E i \in Slots :
        /\ Finished(i, "batch_analyze") /\ resp[i].status = 200
        /\ Len(req[i]) = 2
        /\ req[i][1].user_id # req[i][2].user_id
        /\ resp[i].body.total_processed = 2
        /\ resp[i].body.analyses[1].user_id = req[i][1].user_id
        /\ resp[i].body.analyses[2].user_id = req[i][2].user_id

\* A batch whose second request cannot be analysed was refused whole, with
\* the loop stopped at that request.
C12_StoppedWitness ==
    \E i \in Slots :
        /\ Finished(i, "batch_analyze") /\ resp[i].status = 500
        /\ Len(req[i]) = 2
        /\ OpenImage(req[i][1].image_data) # None
        /\ OpenImage(req[i][2].image_data) = None
        /\ loc[i].next = 2

\* C13: every MatchResponse agrees with itself about the image modality.
\* These four hold together or fail together: both image lists are non-empty;
\* image_compatibility is non-null; compatibility_factors contains
\* "Compatible room aesthetics"; detailed_analysis.image_analysis
\* .aesthetic_compatibility is non-null.  When they hold match_score is the
\* mean of the three reported scores to the nearest hundredth, and otherwise
\* that of text_compatibility and lifestyle_compatibility.
C13_ImageModalityConsistent ==
    \A i \in Slots :
        Finished(i, "match_users") /\ resp[i].status = 200 =>
            LET body == resp[i].body
                both_images ==
                    /\ req[i].user1_images # None /\ req[i].user1_images[1] # << >>
                    /\ req[i].user2_images # None /\ req[i].user2_images[1] # << >>
                has_score == body.image_compatibility # None
                has_factor ==
                    \E k \in 1..Len(body.compatibility_factors) :
                        body.compatibility_factors[k] = "Compatible room aesthetics"
                has_aesthetic ==
                    body.detailed_analysis.image_analysis.aesthetic_compatibility # None
                text == body.text_compatibility[1]
                lifestyle == body.lifestyle_compatibility[1]
            IN  /\ both_images <=> has_score
                /\ has_score <=> has_factor
                /\ has_factor <=> has_aesthetic
                /\ IF both_images
                   THEN 2 * Abs(3 * body.match_score
                                  - (text + body.image_compatibility[1] + lifestyle)) <= 3
                   ELSE Abs(2 * body.match_score - (text + lifestyle)) <= 1

\* A match of two users with images: all four facts hold and the score is
\* the three-way one, which the two-way combination does not give.
C13_Witness ==
    \E i \in Slots :
        /\ Finished(i, "match_users") /\ resp[i].status = 200
        /\ BothHaveImages(req[i])
        /\ resp[i].body.image_compatibility # None
        /\ Len(resp[i].body.compatibility_factors) = 5
        /\ resp[i].body.detailed_analysis.image_analysis.aesthetic_compatibility # None
        /\ 3 * resp[i].body.match_score =
               resp[i].body.text_compatibility[1] + resp[i].body.image_compatibility[1]
                   + resp[i].body.lifestyle_compatibility[1]
        /\ Abs(2 * resp[i].body.match_score
                  - (resp[i].body.text_compatibility[1]
                       + resp[i].body.lifestyle_compatibility[1])) > 1
====
